---- MODULE Spec2Model ----
(***************************************************************************)
(* Model of the numeric core of two pyfda plot widgets:                    *)
(*   PlotImpz     (src/pyfda/plot_widgets/plot_impz.py)                    *)
(*   Plot_FFT_win (src/pyfda/plot_widgets/plot_fft_win.py)                 *)
(*                                                                         *)
(* Numbers.  A float is modelled by an extended rational <<n, d>> with     *)
(* d >= 0 and gcd(|n|, d) = 1:  d > 0 is the finite value n/d, <<1,0>> is  *)
(* +inf, <<-1,0>> is -inf and <<0,0>> is NaN.  A complex number is a pair  *)
(* <<re, im>> of extended rationals.  A level in dB is modelled by the     *)
(* linear magnitude m it is the level of (the level is 20*log10(m)):       *)
(* m = 0 is -inf dB, m = NaN is NaN dB, and a floor of b dB is the         *)
(* magnitude 10^(b/20), which is rational for the floors used here         *)
(* (multiples of 20 dB).                                                   *)
(***************************************************************************)
EXTENDS Integers, Sequences, FiniteSets, TLC

----------------------------------------------------------------------------
(* Bounds of the model *)

\* longest coefficient sequence enumerated exhaustively
MaxLen == 3

\* largest requested number of points (N_user, ledNPoints)
MaxNUser == 3

----------------------------------------------------------------------------
(* Extended rational arithmetic (IEEE-754 special values kept) *)

Sgn(i) == IF i > 0 THEN 1 ELSE IF i < 0 THEN -1 ELSE 0

AbsI(i) == IF i < 0 THEN -i ELSE i

RECURSIVE GCD(_, _)
GCD(a, b) == IF b = 0 THEN a ELSE GCD(b, a % b)

\* the reduced representation of n/d (d may be 0 or negative)
Norm(n, d) ==
    IF d = 0 THEN <<Sgn(n), 0>>
    ELSE LET g == GCD(AbsI(n), AbsI(d))
             s == Sgn(d)
         IN  <<(s * n) \div g, (s * d) \div g>>

XZero == <<0, 1>>
XOne == <<1, 1>>
XNaN == <<0, 0>>
XInf == <<1, 0>>
XInt(i) == <<i, 1>>

IsNaN(x) == x[1] = 0 /\ x[2] = 0
IsInf(x) == x[1] # 0 /\ x[2] = 0
IsFinite(x) == x[2] > 0

XNeg(x) == <<-x[1], x[2]>>
XAbs(x) == <<AbsI(x[1]), x[2]>>

XAdd(x, y) ==
    IF y = XZero /\ IsFinite(x) THEN x
    ELSE IF x = XZero /\ IsFinite(y) THEN y
    ELSE IF IsNaN(x) \/ IsNaN(y) THEN XNaN
    ELSE IF IsInf(x) /\ IsInf(y) THEN (IF x[1] = y[1] THEN x ELSE XNaN)
    ELSE IF IsInf(x) THEN x
    ELSE IF IsInf(y) THEN y
    ELSE LET g == GCD(x[2], y[2])
         IN  Norm(x[1] * (y[2] \div g) + y[1] * (x[2] \div g),
                  (x[2] \div g) * y[2])

XSub(x, y) == XAdd(x, XNeg(y))

XMul(x, y) ==
    IF x = XOne THEN y
    ELSE IF y = XOne THEN x
    ELSE IF IsNaN(x) \/ IsNaN(y) THEN XNaN
    ELSE IF IsInf(x) \/ IsInf(y) THEN <<Sgn(x[1]) * Sgn(y[1]), 0>>
    ELSE IF x = XZero \/ y = XZero THEN XZero
    ELSE LET g1 == GCD(AbsI(x[1]), y[2])
             g2 == GCD(AbsI(y[1]), x[2])
         IN  Norm((x[1] \div g1) * (y[1] \div g2),
                  (x[2] \div g2) * (y[2] \div g1))

XDiv(x, y) ==
    IF y = XOne THEN x
    ELSE IF IsNaN(x) \/ IsNaN(y) THEN XNaN
    ELSE IF y = XZero THEN <<Sgn(x[1]), 0>>          \* x/0: inf, 0/0: NaN
    ELSE IF IsInf(y) THEN (IF IsInf(x) THEN XNaN ELSE XZero)
    ELSE IF IsInf(x) THEN <<Sgn(x[1]) * Sgn(y[1]), 0>>
    ELSE XMul(x, Norm(y[2], y[1]))

\* x < y and x <= y; false when either is NaN
XLess(x, y) ==
    /\ ~IsNaN(x) /\ ~IsNaN(y)
    /\ IF IsInf(x) /\ IsInf(y) THEN x[1] < y[1]
       ELSE x[1] * y[2] < y[1] * x[2]

XLeq(x, y) == ~IsNaN(x) /\ ~IsNaN(y) /\ (x = y \/ XLess(x, y))

\* np.maximum: NaN when either argument is NaN
XMax(x, y) ==
    IF IsNaN(x) \/ IsNaN(y) THEN XNaN
    ELSE IF XLess(x, y) THEN y ELSE x

RECURSIVE Pow10(_)
Pow10(k) == IF k = 0 THEN 1 ELSE 10 * Pow10(k - 1)

\* complex numbers
CZero == <<XZero, XZero>>
CInt(re, im) == <<XInt(re), XInt(im)>>
\* (each operator binds its arguments' values once)
CAdd(u, v) ==
    CHOOSE r \in {<<XAdd(a[1], b[1]), XAdd(a[2], b[2])>> :
                      a \in {u}, b \in {v}} : TRUE
CSub(u, v) ==
    CHOOSE r \in {<<XSub(a[1], b[1]), XSub(a[2], b[2])>> :
                      a \in {u}, b \in {v}} : TRUE
\* (a + bi)(c + di); the products with an imaginary part that is exactly 0
\* are left out when the other factor is finite
CMulV(u, v) ==
    IF v[2] = XZero /\ IsFinite(u[1]) /\ IsFinite(u[2])
    THEN <<XMul(u[1], v[1]), XMul(u[2], v[1])>>
    ELSE IF u[2] = XZero /\ IsFinite(v[1]) /\ IsFinite(v[2])
    THEN <<XMul(u[1], v[1]), XMul(u[1], v[2])>>
    ELSE <<XSub(XMul(u[1], v[1]), XMul(u[2], v[2])),
           XAdd(XMul(u[1], v[2]), XMul(u[2], v[1]))>>
CMul(u, v) == CHOOSE r \in {CMulV(a, b) : a \in {u}, b \in {v}} : TRUE
\* u / v = u * conj(v) / |v|^2
CDivV(u, v) ==
    IF v[2] = XZero /\ v[1] # XZero /\ IsFinite(v[1])
          /\ IsFinite(u[1]) /\ IsFinite(u[2])
    THEN <<XDiv(u[1], v[1]), XDiv(u[2], v[1])>>
    ELSE LET m == XAdd(XMul(v[1], v[1]), XMul(v[2], v[2]))
             p == CMul(u, <<v[1], XNeg(v[2])>>)
         IN  <<XDiv(p[1], m), XDiv(p[2], m)>>
CDiv(u, v) == CHOOSE r \in {CDivV(a, b) : a \in {u}, b \in {v}} : TRUE

----------------------------------------------------------------------------
(* Sequences *)

Min(a, b) == IF a < b THEN a ELSE b

\* all sequences over S of length lo..hi
SeqsOf(S, lo, hi) == UNION {[1..n -> S] : n \in lo..hi}

Const(x, n) == [i \in 1..n |-> x]

\* F(v), with v evaluated once: a local variable of the code
With(v, F(_)) == CHOOSE r \in {F(x) : x \in {v}} : TRUE

----------------------------------------------------------------------------
(* Display in dB *)

\* 20*log10(v) as the magnitude it is the level of: NaN for v < 0 and for
\* NaN, -inf dB (magnitude 0) for v = 0
Log20(v) == IF IsNaN(v) \/ XLess(v, XZero) THEN XNaN ELSE v

\* the magnitude whose level is b dB, b a multiple of 20
Lin(b) == IF b <= 0 THEN <<1, Pow10((-b) \div 20)>> ELSE <<Pow10(b \div 20), 1>>

\* a level m is a finite number of dB that is >= b dB
FiniteAtLeast(m, b) == IsFinite(m) /\ XLeq(Lin(b), m)

\* np.maximum(20 * np.log10(abs(h)), bottom), elementwise
LogImpz(h, bottom) == [i \in DOMAIN h |-> XMax(Log20(XAbs(h[i])), Lin(bottom))]

----------------------------------------------------------------------------
(* PlotImpz.calc_n_points *)

\* N = 100 for an IIR filter
IIR_N == 100

\* N = min(len(bb), 100) for a FIR filter
FIR_MAX == 100

\* np.any(x): some element is nonzero
NpAny(x) == \E i \in DOMAIN x : x[i] # CZero

\* the local IIR of calc_n_points; "raise" when TypeError is raised
IIRFlagNoA0(bb, aa) ==
    IF Len(aa) = 1
    THEN IF Len(bb) = 1 THEN "raise" ELSE "False"
    ELSE IF Len(bb) = 1 THEN "True"
         ELSE IF ~NpAny(Tail(aa)) THEN "False"
         ELSE "True"

IIRFlag(bb, aa) ==
    IF Len(aa) = 1
    THEN IF Len(bb) = 1 THEN "raise" ELSE "False"
    ELSE IF Len(bb) = 1 THEN "True"
         ELSE IF ~NpAny(Tail(aa)) /\ aa[1] # CZero THEN "False"
         ELSE "True"

\* lines 255-261 with the FIR length not capped
NPointsNoCap(IIR, bb, N_user) ==
    IF N_user = 0
    THEN IF IIR = "True" THEN IIR_N ELSE Len(bb)
    ELSE N_user

NPoints(IIR, bb, N_user) ==
    IF N_user = 0
    THEN IF IIR = "True" THEN IIR_N ELSE Min(Len(bb), FIR_MAX)
    ELSE N_user

\* a check that comes too late: the length is chosen first
calc_n_points_late(bb, aa, N_user) ==
    LET IIR == IIRFlag(bb, aa)
    IN  IF IIR = "raise" /\ N_user = 0
        THEN [raised |-> "TypeError", IIR |-> "unbound", N |-> -1]
        ELSE [raised |-> "", IIR |-> IIR, N |-> NPoints(IIR, bb, N_user)]

calc_n_points(bb, aa, N_user) ==
    LET IIR == IIRFlag(bb, aa)
    IN  IF IIR = "raise"
        THEN [raised |-> "TypeError", IIR |-> "unbound", N |-> -1]
        ELSE [raised |-> "", IIR |-> IIR, N |-> NPoints(IIR, bb, N_user)]

----------------------------------------------------------------------------
(* pyfda_lib.impz, as the specification describes it *)

\* section 4.2: classification and length of the response
resolve_length(numerator, denominator, requested_length) ==
    IF Len(denominator) = 1 /\ Len(numerator) = 1
    THEN [raised |-> "DegenerateFilter", L |-> -1]
    ELSE LET FIR ==
                 \/ Len(denominator) = 1
                 \/ /\ Len(numerator) # 1
                    /\ \A i \in 2..Len(denominator) : denominator[i] = CZero
                    /\ denominator[1] # CZero
         IN  [raised |-> "",
              L |-> IF requested_length > 0 THEN requested_length
                    ELSE IF FIR THEN Min(Len(numerator), 100) ELSE 100]

\* the stimulus sampled at L points: unit impulse or unit step
Stimulus(step, L) ==
    [n \in 1..L |-> IF step \/ n = 1 THEN CInt(1, 0) ELSE CZero]

RECURSIVE CSumTo(_, _)
CSumTo(s, n) == IF n = 0 THEN CZero ELSE CAdd(s[n], CSumTo(s, n - 1))

CSum(s) == CHOOSE r \in {CSumTo(v, Len(v)) : v \in {s}} : TRUE

\* sample n of the difference equation
\*   a[0] y[n] = sum_k b[k] x[n-k] - sum_{k>=1} a[k] y[n-k]
\* given the samples y computed so far (n = Len(y) + 1)
NextSample(b, a, x, y) ==
    LET n == Len(y) + 1
        fwd == [k \in 1..Min(Len(b), n) |-> CMul(b[k], x[n - k + 1])]
        back == [j \in 1..Min(Len(a) - 1, n - 1) |-> CMul(a[j + 1], y[n - j])]
    IN  CDiv(CSub(CSum(fwd), CSum(back)), a[1])

\* k more samples after the samples y (halving keeps the evaluation shallow)
RECURSIVE Simulate(_, _, _, _, _)
Simulate(b, a, x, y, k) ==
    IF k = 0 THEN y
    ELSE IF k = 1 THEN Append(y, NextSample(b, a, x, y))
    ELSE CHOOSE r \in {Simulate(b, a, x, v, k - k \div 2) :
                           v \in {Simulate(b, a, x, y, k \div 2)}} : TRUE

\* [h, t] = impz(b, a, FS, step = step, N = N)
impz(b, a, FS, step, N) ==
    LET r == resolve_length(b, a, N)
    IN  IF r.raised # ""
        THEN [raised |-> r.raised, h |-> <<>>, t |-> <<>>]
        ELSE CHOOSE v \in {[raised |-> "",
              h |-> Simulate(b, a, x, <<>>, r.L),
              t |-> [n \in 1..r.L |-> n - 1]] : x \in {Stimulus(step, r.L)}} : TRUE

----------------------------------------------------------------------------
(* State *)

VARIABLES
    fil,        \* fb.fil[0], the current filter record of the filter broker
    plotImpz,   \* the PlotImpz widget (self), with what it has plotted
    fftWin,     \* the Plot_FFT_win widget (self), with what it has plotted
    ret,        \* how the last call ended: its name, exception, return value
    memo        \* history: one earlier call, with its inputs and its outcome

vars == <<fil, plotImpz, fftWin, ret, memo>>

\* how a call ended: the operation, the exception it raised, what it
\* returned, and the method it dispatched to
Ret(op, raised) ==
    [op |-> op, raised |-> raised, IIR |-> "unbound", N |-> -1, N_user |-> -1,
     called |-> ""]

NoCall == Ret("", "")

\* an axes object that is not in the figure
NoAxes == [t |-> <<>>, y |-> <<>>, bottom |-> 0, log |-> FALSE]

----------------------------------------------------------------------------
(* PlotImpz.draw_impz *)

Re(h) == [i \in DOMAIN h |-> h[i][1]]
Im(h) == [i \in DOMAIN h |-> h[i][2]]

\* np.all in the place of np.any
AllAreComplex(h) == \A i \in DOMAIN h : h[i][2] # XZero

\* np.any(np.iscomplex(h))
AnyIsComplex(h) == \E i \in DOMAIN h : h[i][2] # XZero

\* the state of the widget (self) after draw_impz, and how the call ended;
\* f is fb.fil[0] and N the number of points handed to impz.  (chkStep is
\* read here but created nowhere in __init__; it is taken as a check box the
\* surrounding application supplies.)
DrawImpzWith(self, f, N) ==
    With([self EXCEPT !.ledLogBottomEnabled = self.chkLog,
                      !.bb = f.ba[1], !.aa = f.ba[2], !.f_S = f.f_S],
         LAMBDA s1 :
    With(impz(s1.bb, s1.aa, s1.f_S, s1.chkStep, N),
         LAMBDA r :
        IF r.raised # ""
        THEN [self |-> s1, ret |-> Ret("draw_impz", r.raised)]
        ELSE LET log == s1.chkLog
                 cmplx == AnyIsComplex(r.h)
                 bottom == IF log THEN s1.ledLogBottom ELSE 0
                 h == IF log THEN LogImpz(Re(r.h), bottom) ELSE Re(r.h)
                 h_i == IF log THEN LogImpz(Im(r.h), bottom) ELSE Im(r.h)
             IN  [self |->
                      [s1 EXCEPT
                          !.cmplx = cmplx,
                          !.ax_r = [t |-> r.t, y |-> h,
                                    bottom |-> bottom, log |-> log],
                          !.ax_i = IF cmplx
                                   THEN [t |-> r.t, y |-> h_i,
                                         bottom |-> bottom, log |-> log]
                                   ELSE NoAxes],
                  ret |-> Ret("draw_impz", "")]))

\* draw_impz asking impz for one point more than ledNPoints says
draw_impz_extra(self, f) == DrawImpzWith(self, f, self.ledNPoints + 1)

\* draw_impz: N = int(self.ledNPoints.text())
draw_impz(self, f) == DrawImpzWith(self, f, self.ledNPoints)

\* draw: draw_impz unless the toolbar has disabled updates
draw(self, f) ==
    IF self.enable_update THEN draw_impz(self, f)
    ELSE [self |-> self, ret |-> Ret("draw", "")]

----------------------------------------------------------------------------
(* Inputs *)

\* coefficient values: 0, 1 and -1/2
CoefVals == {CInt(0, 0), CInt(1, 0), <<<<-1, 2>>, XZero>>}

\* every coefficient sequence of length 1..MaxLen, and one longer than the
\* FIR limit
CoefSeqs == SeqsOf(CoefVals, 1, MaxLen) \cup {Const(CInt(1, 0), FIR_MAX + 1)}

\* the filters <<b, a>> that are simulated: the two of the specification's
\* examples that stay within the integers, the degenerate one, a FIR filter
\* by the zero-tail rule with a negative and a scaled sample, a FIR filter
\* with a zero sample, and two complex FIR filters, one of them with a real
\* first sample
FilterSet ==
    { << <<CInt(1, 0), CInt(1, 0), CInt(1, 0)>>, <<CInt(1, 0)>> >>,
      << <<CInt(1, 0)>>, <<CInt(1, 0), CInt(-1, 0)>> >>,
      << <<CInt(1, 0)>>, <<CInt(1, 0)>> >>,
      << <<CInt(1, 0), CInt(-1, 0)>>, <<CInt(2, 0), CInt(0, 0)>> >>,
      << <<CInt(1, 0), CInt(0, 0)>>, <<CInt(1, 0)>> >>,
      << <<CInt(0, 1), CInt(1, 0)>>, <<CInt(1, 0)>> >>,
      << <<CInt(1, 0), CInt(0, 1)>>, <<CInt(1, 0)>> >> }

Degenerate(f) == Len(f[1]) = 1 /\ Len(f[2]) = 1

\* floors of the dB display
BottomVals == {-80, -20}

\* fb.fil[0] as the filter broker initialises it
InitFil ==
    [ba |-> << <<CInt(1, 0), CInt(1, 0), CInt(1, 0)>>, <<CInt(1, 0)>> >>,
     f_S |-> 1,
     win_fnct |-> "boxcar", win_len |-> 1,
     win_params |-> [scalar |-> FALSE, v |-> <<>>]]

----------------------------------------------------------------------------
(* PlotImpz: construction and handlers *)

\* __init__ up to the first draw(): the widgets' initial values
PlotImpzWidgets ==
    [chkLog |-> FALSE, ledLogBottom |-> -80, ledLogBottomEnabled |-> TRUE,
     chkStep |-> FALSE, ledNPoints |-> 0, enable_update |-> TRUE,
     bb |-> <<>>, aa |-> <<>>, f_S |-> 0, cmplx |-> FALSE,
     ax_r |-> NoAxes, ax_i |-> NoAxes]

\* __init__: the widgets, then self.draw()
PlotImpzInit(f) == draw(PlotImpzWidgets, f).self

\* a handler connected to draw: the widget has changed to self
Drawn(self) ==
    \E d \in {draw(self, fil)} :
        /\ plotImpz' = d.self
        /\ ret' = d.ret
        /\ UNCHANGED <<fil, fftWin, memo>>

\* chkLog.clicked
ClickLog == Drawn([plotImpz EXCEPT !.chkLog = ~plotImpz.chkLog])

\* ledNPoints.editingFinished
EditNPoints == \E n \in 0..MaxNUser : Drawn([plotImpz EXCEPT !.ledNPoints = n])

\* ledLogBottom.editingFinished
EditLogBottom ==
    /\ plotImpz.ledLogBottomEnabled
    /\ \E b \in BottomVals : Drawn([plotImpz EXCEPT !.ledLogBottom = b])

\* update_view, and the handlers of chkPltStim, cmbStimulus and ledFreq,
\* which draw_impz does not read
UpdateViewImpz == Drawn(plotImpz)

\* chkStep is read by draw_impz; no handler is connected to it
SetStep ==
    /\ plotImpz' = [plotImpz EXCEPT !.chkStep = ~plotImpz.chkStep]
    /\ ret' = NoCall
    /\ UNCHANGED <<fil, fftWin, memo>>

\* the navigation toolbar switches updates on or off
SetEnableUpdate ==
    /\ plotImpz' = [plotImpz EXCEPT !.enable_update = ~plotImpz.enable_update]
    /\ ret' = NoCall
    /\ UNCHANGED <<fil, fftWin, memo>>

\* the filter broker replaces the coefficients of the current filter
SetCoefficients ==
    /\ \E f \in FilterSet : fil' = [fil EXCEPT !.ba = f]
    /\ ret' = NoCall
    /\ UNCHANGED <<plotImpz, fftWin, memo>>

\* calc_n_points(N_user), called with the widget as it is; memo may keep
\* this call, with the filter record current at the time, for comparison
\* with a later one
CalcNPoints ==
    \E N_user \in 0..MaxNUser :
        LET r == calc_n_points(plotImpz.bb, plotImpz.aa, N_user)
        IN  /\ ret' = [op |-> "calc_n_points", raised |-> r.raised,
                       IIR |-> r.IIR, N |-> r.N, N_user |-> N_user,
                       called |-> ""]
            /\ memo' \in {memo, [set |-> TRUE, ba |-> fil.ba,
                                 N_user |-> N_user, out |-> ret']}
            /\ UNCHANGED <<fil, plotImpz, fftWin>>

----------------------------------------------------------------------------
(* scipy.signal.windows, for the families used here *)

\* cos(2 pi k / m) where it is rational: m = 1, 2, 3, 4, 6
CosTurn(k, m) ==
    LET r == (12 \div m) * (k % m)          \* the angle in units of 30 degrees
    IN  CASE r = 0 -> XOne
          [] r = 2 \/ r = 10 -> <<1, 2>>
          [] r = 3 \/ r = 9 -> XZero
          [] r = 4 \/ r = 8 -> <<-1, 2>>
          [] r = 6 -> <<-1, 1>>

\* boxcar(M)
boxcar(M) == [n \in 1..M |-> XOne]

\* bartlett(M), M > 1: 2n/(M-1) up to the middle, 2 - 2n/(M-1) after it
bartlett(M) ==
    [i \in 1..M |->
        LET n == i - 1
        IN  IF 2 * n <= M - 1 THEN Norm(2 * n, M - 1)
            ELSE XSub(XInt(2), Norm(2 * n, M - 1))]

\* general_hamming(M, alpha), M > 1: alpha - (1 - alpha) cos(2 pi n / (M-1))
general_hamming(M, alpha) ==
    [i \in 1..M |->
        XSub(XInt(alpha), XMul(XInt(1 - alpha), CosTurn(i - 1, M - 1)))]

WindowNames == {"boxcar", "bartlett", "general_hamming"}

\* how many arguments after M a family takes (the last one is sym)
Arity(name) == IF name = "general_hamming" THEN {1, 2} ELSE {0, 1}

\* getattr(win, name)(N, *args): the samples, or the exception raised
Window(name, N, args) ==
    IF name \notin WindowNames
    THEN [raised |-> "AttributeError", w |-> <<>>]
    ELSE IF Len(args) \notin Arity(name)
    THEN [raised |-> "TypeError", w |-> <<>>]
    ELSE LET nreq == IF name = "general_hamming" THEN 1 ELSE 0
             sym == IF Len(args) > nreq THEN args[nreq + 1] # 0 ELSE TRUE
             M == IF sym THEN N ELSE N + 1          \* _extend
             full == IF name = "boxcar" THEN boxcar(M)
                     ELSE IF name = "bartlett" THEN bartlett(M)
                     ELSE general_hamming(M, args[1])
         IN  [raised |-> "",
              w |-> IF N <= 1 THEN boxcar(N)        \* _len_guards
                    ELSE SubSeq(full, 1, N)]        \* _truncate

----------------------------------------------------------------------------
(* Plot_FFT_win.calc_win *)

\* zero padding of the FFT: N * 8 points
PAD == 8

\* safe_eval(expr, alt_expr, sign = 'pos' | 'neg'): the number in the text
\* when it has the sign asked for, the alternative otherwise
safe_eval(expr, alt_expr, sign) ==
    IF (sign = "pos" /\ expr > 0) \/ (sign = "neg" /\ expr < 0)
    THEN expr ELSE alt_expr

\* bool(params) is False, for a scalar or a list
Falsy(params) ==
    IF params.scalar THEN params.v[1] = 0 ELSE params.v = <<>>

\* the arguments after N that lines 239-244 pass to the window function
WinArgs(params) ==
    IF Falsy(params) THEN <<>>
    ELSE IF params.scalar THEN <<params.v[1]>>
    ELSE params.v

\* s[lo] + ... + s[hi] (halving keeps the evaluation shallow)
RECURSIVE XSumRange(_, _, _)
XSumRange(s, lo, hi) ==
    IF lo > hi THEN XZero
    ELSE IF lo = hi THEN s[lo]
    ELSE LET mid == (lo + hi) \div 2
         IN  CHOOSE r \in {XAdd(a, b) : a \in {XSumRange(s, lo, mid)},
                                        b \in {XSumRange(s, mid + 1, hi)}} : TRUE

\* np.sum
NpSum(s) == CHOOSE r \in {XSumRange(v, 1, Len(v)) : v \in {s}} : TRUE

\* np.square, elementwise
NpSquare(s) == [i \in DOMAIN s |-> XMul(s[i], s[i])]

\* sum of (-1)^n s[n]
AltSum(s) == NpSum([i \in DOMAIN s |-> IF i % 2 = 1 THEN s[i] ELSE XNeg(s[i])])

\* fftshift(fftfreq(n, d = 1 / f_S)): (i - n/2) f_S / n for i = 0 .. n-1
FreqAxis(n, f_S) == [i \in 1..n |-> Norm((i - 1 - n \div 2) * f_S, n)]

\* fftshift(np.abs(fft(w, n))) / N, kept as its length and the two bins that
\* are rational: the one at frequency 0 (index n/2), |sum w| / N, and the one
\* at -f_S/2 (index 0), |sum (-1)^k w[k]| / N
Spectrum(w, n, N) ==
    [len |-> n,
     dc |-> XDiv(XAbs(NpSum(w)), XInt(N)),
     nyq |-> XDiv(XAbs(AltSum(w)), XInt(N))]

\* lines 230-237 of calc_win: N, the line edit and t
calc_win_N(self, f) ==
    LET N == IF self.chk_auto_N THEN f.win_len
             ELSE safe_eval(self.led_N, self.N, "pos")
    IN  [self EXCEPT !.led_N_enabled = ~self.chk_auto_N,
                     !.N = N,
                     !.led_N = IF self.chk_auto_N THEN N ELSE @,
                     !.t = [n \in 1..N |-> n - 1]]

\* lines 252-253 of calc_win: F and Win
calc_win_fft(self, f) ==
    [self EXCEPT !.F = FreqAxis(self.N * PAD, f.f_S),
                 !.Win = Spectrum(self.win, self.N * PAD, self.N)]

\* the window of calc_win normalised before the metrics are computed
calc_win_early(self, f) ==
    With(calc_win_N(self, f), LAMBDA s1 :
    With(Window(f.win_fnct, s1.N, WinArgs(f.win_params)), LAMBDA r :
        IF r.raised # ""
        THEN [self |-> s1, ret |-> Ret("calc_win", r.raised)]
        ELSE With(XDiv(XInt(s1.N), NpSum(r.w)), LAMBDA pre :
             With(IF s1.chk_norm_f
                  THEN [i \in DOMAIN r.w |-> XMul(r.w[i], pre)]
                  ELSE r.w, LAMBDA w :
             With([s1 EXCEPT
                      !.win = w,
                      !.nenbw = XDiv(XMul(XInt(s1.N), NpSum(NpSquare(w))),
                                     XMul(NpSum(w), NpSum(w))),
                      !.scale = XDiv(XInt(s1.N), NpSum(w))], LAMBDA s2 :
                 [self |-> calc_win_fft(s2, f),
                  ret |-> Ret("calc_win", "")])))))

\* the widget (self) after calc_win, and how the call ended; f is fb.fil[0]
calc_win(self, f) ==
    With(calc_win_N(self, f), LAMBDA s1 :
    With(Window(f.win_fnct, s1.N, WinArgs(f.win_params)), LAMBDA r :
        IF r.raised # ""
        THEN [self |-> s1, ret |-> Ret("calc_win", r.raised)]
        ELSE With(XDiv(XInt(s1.N), NpSum(r.w)), LAMBDA scale :
             With([s1 EXCEPT
                      !.win = IF s1.chk_norm_f
                              THEN [i \in DOMAIN r.w |-> XMul(r.w[i], scale)]
                              ELSE r.w,
                      !.nenbw = XDiv(XMul(XInt(s1.N), NpSum(NpSquare(r.w))),
                                     XMul(NpSum(r.w), NpSum(r.w))),
                      !.scale = scale], LAMBDA s2 :
                 [self |-> calc_win_fft(s2, f),
                  ret |-> Ret("calc_win", "")]))))

----------------------------------------------------------------------------
(* Plot_FFT_win.update_view, draw, update_bottom *)

\* np.maximum(20 * np.log10(self.win), self.bottom_t), elementwise
LogWin(w, bottom) == [i \in DOMAIN w |-> XMax(Log20(w[i]), Lin(bottom))]

\* np.maximum(20 * np.log10(self.Win), self.bottom_f), on the bins kept
LogSpectrum(W, bottom) ==
    [W EXCEPT !.dc = XMax(Log20(W.dc), Lin(bottom)),
              !.nyq = XMax(Log20(W.nyq), Lin(bottom))]

\* axes after cla()
ClearT == [x |-> <<>>, y |-> <<>>, log |-> FALSE]
ClearF == [x |-> <<>>, y |-> [len |-> 0, dc |-> XZero, nyq |-> XZero],
           log |-> FALSE]

\* the widget after update_view, and how the call ended; plot() raises
\* ValueError when x and y differ in length
win_update_view(self) ==
    IF Len(self.t) # Len(self.win)
    THEN [self |-> [self EXCEPT !.ax_t = ClearT, !.ax_f = ClearF],
          ret |-> Ret("update_view", "ValueError")]
    ELSE [self |->
             [self EXCEPT
                 !.ax_t = [x |-> self.t,
                           y |-> IF self.chk_log_t
                                 THEN LogWin(self.win, self.bottom_t)
                                 ELSE self.win,
                           log |-> self.chk_log_t],
                 !.ax_f = [x |-> self.F,
                           y |-> IF self.chk_log_f
                                 THEN LogSpectrum(self.Win, self.bottom_f)
                                 ELSE self.Win,
                           log |-> self.chk_log_f]],
          ret |-> Ret("update_view", "")]

\* draw: init_axes, calc_win, update_view
win_draw(self, f) ==
    With(calc_win(self, f), LAMBDA c :
        IF c.ret.raised # "" THEN c
        ELSE With(win_update_view(c.self), LAMBDA u :
                 [self |-> u.self,
                  ret |-> [u.ret EXCEPT !.op = "draw"]]))

\* update_bottom: both floors from their line edits, then update_view
update_bottom(self) ==
    LET bt == safe_eval(self.led_log_bottom_t, self.bottom_t, "neg")
        bf == safe_eval(self.led_log_bottom_f, self.bottom_f, "neg")
    IN  win_update_view([self EXCEPT !.bottom_t = bt, !.led_log_bottom_t = bt,
                                     !.bottom_f = bf, !.led_log_bottom_f = bf])

----------------------------------------------------------------------------
(* Plot_FFT_win: construction and handlers *)

\* self.N = 128: initial number of data points
N_INIT == 128

\* self.bottom_f = -80
BOTTOM_F == -80

\* self.bottom_t = -60
BOTTOM_T == -60

\* largest window length entered or supplied by the filter record
MaxN == 3

\* __init__ and _construct_UI up to the first draw(); the window is hidden
\* until it is shown, and needs_draw and needs_redraw are not assigned
PlotFFTwinWidgets ==
    [visible |-> FALSE, needs_draw |-> "unset", needs_redraw |-> "unset",
     needs_calc |-> FALSE, bottom_f |-> BOTTOM_F, bottom_t |-> BOTTOM_T,
     N |-> N_INIT,
     chk_auto_N |-> FALSE, led_N |-> N_INIT, led_N_enabled |-> TRUE,
     chk_log_t |-> FALSE, led_log_bottom_t |-> BOTTOM_T,
     chk_norm_f |-> TRUE, chk_half_f |-> TRUE, chk_log_f |-> TRUE,
     led_log_bottom_f |-> BOTTOM_F,
     t |-> <<>>, win |-> <<>>, nenbw |-> XZero, scale |-> XZero,
     F |-> <<>>, Win |-> ClearF.y, ax_t |-> ClearT, ax_f |-> ClearF]

\* _construct_UI ends with self.draw()
PlotFFTwinInit(f) == win_draw(PlotFFTwinWidgets, f).self

\* a handler that writes the length it used back into the filter record
WinDoneWriteBack(r) ==
    \E d \in {r} :
        /\ fftWin' = d.self
        /\ ret' = d.ret
        /\ fil' = [fil EXCEPT !.win_len = d.self.N]
        /\ UNCHANGED <<plotImpz, memo>>

\* a handler that ends in r, the result of draw, update_view or
\* update_bottom
WinDone(r) ==
    \E d \in {r} :
        /\ fftWin' = d.self
        /\ ret' = d.ret
        /\ UNCHANGED <<fil, plotImpz, memo>>

\* chk_auto_N.clicked -> draw
ClickAutoN ==
    WinDone(win_draw([fftWin EXCEPT !.chk_auto_N = ~fftWin.chk_auto_N], fil))

\* led_N.editingFinished -> draw; 0 stands for a text that is no positive
\* number
EditN ==
    /\ fftWin.led_N_enabled
    /\ \E n \in 0..MaxN : WinDone(win_draw([fftWin EXCEPT !.led_N = n], fil))

\* chk_norm_f.clicked -> draw
ClickNorm ==
    WinDone(win_draw([fftWin EXCEPT !.chk_norm_f = ~fftWin.chk_norm_f], fil))

\* chk_log_t.clicked -> update_view
ClickLogT ==
    WinDone(win_update_view([fftWin EXCEPT !.chk_log_t = ~fftWin.chk_log_t]))

\* chk_log_f.clicked -> update_view
ClickLogF ==
    WinDone(win_update_view([fftWin EXCEPT !.chk_log_f = ~fftWin.chk_log_f]))

\* chk_half_f.clicked -> update_view
ClickHalf ==
    WinDone(win_update_view([fftWin EXCEPT !.chk_half_f = ~fftWin.chk_half_f]))

\* led_log_bottom_t / led_log_bottom_f .editingFinished -> update_bottom
EditBottom ==
    \E bt \in BottomVals \cup {BOTTOM_T}, bf \in BottomVals :
        WinDone(update_bottom([fftWin EXCEPT !.led_log_bottom_t = bt,
                                             !.led_log_bottom_f = bf]))

\* the shape parameters the filter record may hold: none, the scalars 0 and
\* 1, and the lists [0] and [1, 1]
ParamVals ==
    { [scalar |-> FALSE, v |-> <<>>],
      [scalar |-> TRUE, v |-> <<0>>],
      [scalar |-> TRUE, v |-> <<1>>],
      [scalar |-> FALSE, v |-> <<0>>],
      [scalar |-> FALSE, v |-> <<1, 1>>] }

\* the filter broker selects another window; general_hamming is evaluated
\* only at the lengths where its samples are rational
SetWindow ==
    /\ \E name \in WindowNames \cup {"nosuch"}, params \in ParamVals :
          /\ name = "general_hamming" => fftWin.N <= MaxN
          /\ fil' = [fil EXCEPT !.win_fnct = name, !.win_params = params]
    /\ ret' = NoCall
    /\ UNCHANGED <<plotImpz, fftWin, memo>>

\* the filter broker changes the window length
SetWinLen ==
    /\ \E n \in 1..MaxN : fil' = [fil EXCEPT !.win_len = n]
    /\ ret' = NoCall
    /\ UNCHANGED <<plotImpz, fftWin, memo>>

\* sampling frequencies of the filter record
FsVals == {1, 2}

\* the filter broker changes the sampling frequency
SetSampleRate ==
    /\ \E f_S \in FsVals : fil' = [fil EXCEPT !.f_S = f_S]
    /\ ret' = NoCall
    /\ UNCHANGED <<plotImpz, fftWin, memo>>

----------------------------------------------------------------------------
(* Plot_FFT_win.process_sig_rx *)

\* keys of dict_sig that process_sig_rx looks for
SigKeys == {"data_changed", "home", "view_changed", "ui_changed"}

\* the dictionaries received: any set of those keys, with the value of
\* 'ui_changed'
Signals == [keys : SUBSET SigKeys, ui : {"resized", "other"}]

\* 'ui_changed' in dict_sig and dict_sig['ui_changed'] == 'resized'
Resized(dict_sig) == "ui_changed" \in dict_sig.keys /\ dict_sig.ui = "resized"

\* how process_sig_rx ended, and the method it called
SigRet(raised, called) ==
    [Ret("process_sig_rx", raised) EXCEPT !.called = called]

\* the widget after process_sig_rx(dict_sig), and how the call ended; a flag
\* that is "unset" is an attribute not assigned so far, and reading it
\* raises AttributeError
process_sig_rx(self, f, dict_sig) ==
    IF self.visible
    THEN IF \/ "data_changed" \in dict_sig.keys
            \/ "home" \in dict_sig.keys
            \/ self.needs_calc
         THEN With(win_draw(self, f), LAMBDA d :
                  IF d.ret.raised # ""
                  THEN [self |-> d.self, ret |-> SigRet(d.ret.raised, "draw")]
                  ELSE [self |-> [d.self EXCEPT !.needs_calc = FALSE,
                                                !.needs_draw = "False"],
                        ret |-> SigRet("", "draw")])
         ELSE IF "view_changed" \notin dict_sig.keys
                    /\ self.needs_draw = "unset"
         THEN [self |-> self, ret |-> SigRet("AttributeError", "")]
         ELSE IF "view_changed" \in dict_sig.keys \/ self.needs_draw = "True"
         THEN With(win_update_view(self), LAMBDA u :
                  IF u.ret.raised # ""
                  THEN [self |-> u.self,
                        ret |-> SigRet(u.ret.raised, "update_view")]
                  ELSE [self |-> [u.self EXCEPT !.needs_draw = "False"],
                        ret |-> SigRet("", "update_view")])
         ELSE IF ~Resized(dict_sig) /\ self.needs_redraw = "unset"
         THEN [self |-> self, ret |-> SigRet("AttributeError", "")]
         ELSE IF Resized(dict_sig) \/ self.needs_redraw = "True"
         THEN [self |-> self, ret |-> SigRet("", "redraw")]
         ELSE [self |-> self, ret |-> SigRet("", "")]
    ELSE [self |-> IF "data_changed" \in dict_sig.keys
                   THEN [self EXCEPT !.needs_calc = TRUE]
                   ELSE IF "view_changed" \in dict_sig.keys
                   THEN [self EXCEPT !.needs_draw = "True"]
                   ELSE IF Resized(dict_sig)
                   THEN [self EXCEPT !.needs_redraw = "True"]
                   ELSE self,
          ret |-> SigRet("", "")]

\* sig_rx or the toolbar's sig_tx delivers a dictionary
ProcessSigRx ==
    \E dict_sig \in Signals : WinDone(process_sig_rx(fftWin, fil, dict_sig))

\* the window is shown or hidden
SetVisible ==
    /\ fftWin' = [fftWin EXCEPT !.visible = ~fftWin.visible]
    /\ ret' = NoCall
    /\ UNCHANGED <<fil, plotImpz, memo>>

----------------------------------------------------------------------------
(* Specifications *)

NoMemo == [set |-> FALSE, ba |-> <<>>, N_user |-> -1, out |-> NoCall]

\* the filter response widget, after construction on a filter it can draw
InitImpz ==
    /\ fil \in {[InitFil EXCEPT !.ba = f] : f \in {g \in FilterSet : ~Degenerate(g)}}
    /\ plotImpz = PlotImpzInit(fil)
    /\ fftWin = PlotFFTwinWidgets
    /\ ret = NoCall
    /\ memo = NoMemo

NextImpz ==
    \/ ClickLog
    \/ EditNPoints
    \/ EditLogBottom
    \/ UpdateViewImpz
    \/ SetStep
    \/ SetCoefficients

SpecImpz == InitImpz /\ [][NextImpz]_vars

\* calc_n_points as a function of the stored coefficients and N_user
InitNPoints ==
    /\ fil = InitFil
    /\ \E b \in CoefSeqs, a \in CoefSeqs :
          plotImpz = [PlotImpzWidgets EXCEPT !.bb = b, !.aa = a]
    /\ fftWin = PlotFFTwinWidgets
    /\ ret = NoCall
    /\ memo = NoMemo

NextNPoints == CalcNPoints

SpecNPoints == InitNPoints /\ [][NextNPoints]_vars

\* the window viewer, after construction on a window it can compute
InitWin ==
    /\ fil \in {[InitFil EXCEPT !.win_fnct = name] : name \in {"boxcar", "bartlett"}}
    /\ plotImpz = PlotImpzWidgets
    /\ fftWin = PlotFFTwinInit(fil)
    /\ ret = NoCall
    /\ memo = NoMemo

NextWin ==
    \/ ClickAutoN
    \/ EditN
    \/ ClickNorm
    \/ SetWindow
    \/ SetWinLen

SpecWin == InitWin /\ [][NextWin]_vars

\* the filter records whose window the viewer can compute at lengths up to
\* MaxN
ViewFil ==
    {f \in {[InitFil EXCEPT !.win_fnct = name, !.win_params = params,
                            !.win_len = n] :
                name \in WindowNames, params \in ParamVals, n \in 1..MaxN} :
        Window(f.win_fnct, f.win_len, WinArgs(f.win_params)).raised = ""}

\* the window viewer showing the window of the filter record: constructed,
\* then switched to the automatic length
InitView ==
    /\ fil \in ViewFil
    /\ plotImpz = PlotImpzWidgets
    /\ fftWin = win_draw([PlotFFTwinInit(InitFil) EXCEPT !.chk_auto_N = TRUE],
                         fil).self
    /\ ret = NoCall
    /\ memo = NoMemo

NextView ==
    \/ ClickLogT
    \/ ClickLogF
    \/ ClickHalf
    \/ EditBottom
    \/ ClickNorm
    \/ SetSampleRate

SpecView == InitView /\ [][NextView]_vars

\* the filter response widget while the filter broker replaces the
\* coefficients, with calc_n_points called in between
InitIndep == InitImpz

NextIndep ==
    \/ SetCoefficients
    \/ SetEnableUpdate
    \/ UpdateViewImpz
    \/ CalcNPoints

SpecIndep == InitIndep /\ [][NextIndep]_vars

\* both widgets constructed on the same filter record, with the operations
\* that read it
InitFrame ==
    /\ fil \in {[InitFil EXCEPT !.ba = f] :
                   f \in {g \in FilterSet : ~Degenerate(g)}}
    /\ plotImpz = PlotImpzInit(fil)
    /\ fftWin = PlotFFTwinInit(fil)
    /\ ret = NoCall
    /\ memo = NoMemo

NextFrame ==
    \/ ClickAutoN
    \/ ClickNorm
    \/ ClickLogT
    \/ ClickLog
    \/ UpdateViewImpz
    \/ CalcNPoints
    \/ SetWinLen

SpecFrame == InitFrame /\ [][NextFrame]_vars

\* the window viewer receiving signals while it is shown and hidden and the
\* filter broker changes the window length and the sampling frequency
InitSig ==
    /\ fil = InitFil
    /\ plotImpz = PlotImpzWidgets
    /\ fftWin = PlotFFTwinInit(fil)
    /\ ret = NoCall
    /\ memo = NoMemo

NextSig ==
    \/ ProcessSigRx
    \/ SetVisible
    \/ ClickAutoN
    \/ SetWinLen
    \/ SetSampleRate

SpecSig == InitSig /\ [][NextSig]_vars

----------------------------------------------------------------------------
(* Claims about calc_n_points (SpecNPoints) *)

\* the filter the last calc_n_points call saw
bb == plotImpz.bb
aa == plotImpz.aa

CalledNPoints == ret.op = "calc_n_points"

BothLengthOne == Len(bb) = 1 /\ Len(aa) = 1

ZeroTail == \A i \in 2..Len(aa) : aa[i] = CZero

\* the classification by the first matching rule, "True" for IIR
RuleIIR ==
    IF Len(aa) = 1 THEN "False"
    ELSE IF Len(bb) = 1 THEN "True"
    ELSE IF ZeroTail /\ aa[1] # CZero THEN "False"
    ELSE "True"

\* C1: for every filter whose numerator and denominator are not both of
\* length 1, calc_n_points classifies by the first matching rule:
\* denominator length 1 -> FIR; else numerator length 1 -> IIR; else zero
\* tail and nonzero first denominator coefficient -> FIR; else IIR.  In
\* particular numerator length 1 with denominator [a0, 0, ..., 0] is IIR,
\* and a denominator [0, 0, ..., 0] is IIR.
C1_Classification ==
    (CalledNPoints /\ ~BothLengthOne) =>
        /\ ret.raised = ""
        /\ ret.IIR = RuleIIR
        /\ (Len(bb) = 1 /\ Len(aa) > 1 /\ ZeroTail) => ret.IIR = "True"
        /\ (Len(aa) > 1 /\ ZeroTail /\ aa[1] = CZero) => ret.IIR = "True"

\* a filter with numerator length 1 and denominator [a0, 0] has been
\* classified, and so has one with denominator [0, 0, 0]
C1_Witness ==
    /\ CalledNPoints
    /\ Len(bb) = 1 /\ Len(aa) = 2 /\ aa[1] # CZero /\ aa[2] = CZero
    /\ ret.IIR = "True"

\* C2: for every non-degenerate filter the length returned is N_user itself
\* when N_user > 0, and otherwise min(len(numerator), 100) for FIR and 100
\* for IIR
C2_Length ==
    (CalledNPoints /\ ~BothLengthOne) =>
        ret.N = IF ret.N_user > 0 THEN ret.N_user
                ELSE IF RuleIIR = "False" THEN Min(Len(bb), 100)
                ELSE 100

\* a FIR filter with more than 100 coefficients has been sized automatically
C2_Witness ==
    /\ CalledNPoints
    /\ Len(bb) > 100 /\ Len(aa) = 1 /\ ret.N_user = 0
    /\ ret.N = 100

\* C3: calc_n_points raises its error exactly when numerator and denominator
\* both have length 1, for every N_user, and then no length has been chosen
C3_Degenerate ==
    CalledNPoints =>
        /\ ret.raised = "TypeError" <=> BothLengthOne
        /\ ret.raised # "" => (ret.N = -1 /\ ret.IIR = "unbound")
        /\ ret.raised = "" => ret.N >= 0

\* the error has been raised for a requested length > 0
C3_Witness ==
    /\ CalledNPoints
    /\ BothLengthOne /\ ret.N_user > 0
    /\ ret.raised = "TypeError"

----------------------------------------------------------------------------
(* Claims about draw_impz (SpecImpz) *)

DrewImpz == ret.op = "draw_impz"

----------------------------------------------------------------------------
(* Claims about the logarithmic display (SpecView) *)

\* update_view has plotted finite window samples on the logarithmic time axis
LogTimeShown ==
    /\ ret.op \in {"draw", "update_view"} /\ ret.raised = ""
    /\ fftWin.ax_t.log
    /\ \A i \in DOMAIN fftWin.win : IsFinite(fftWin.win[i])

\* C5: in log mode every element plotted is finite and not below the floor,
\* also where the window sample is zero or negative
C5_FiniteAboveFloor ==
    LogTimeShown =>
        \A i \in DOMAIN fftWin.ax_t.y :
            FiniteAtLeast(fftWin.ax_t.y[i], fftWin.bottom_t)

\* C6: the log transform of update_view gives, on the window samples and
\* their floor, what the log transform of draw_impz gives on the same series
C6_SameTransform ==
    LogTimeShown => fftWin.ax_t.y = LogImpz(fftWin.win, fftWin.bottom_t)

----------------------------------------------------------------------------
(* Claims about calc_win (SpecWin) *)

\* what the window function returns for the current filter record and N
Raw == Window(fil.win_fnct, fftWin.N, WinArgs(fil.win_params))

\* the last handler ran calc_win to its end
CalcWinDone == ret.op = "draw" /\ ret.raised = ""

\* the last handler ended in the window function raising
CalcWinFailed ==
    ret.op = "calc_win" /\ ret.raised \in {"AttributeError", "TypeError"}

\* C7: scale = N / sum(w) and nenbw = N sum(w^2) / sum(w)^2 are computed from
\* the samples the window function returned, whatever chk_norm_f says; with
\* chk_norm_f the samples stored are those samples times scale, and the
\* spectrum is that of the samples stored
C7_MetricsFromRaw ==
    CalcWinDone =>
        LET w == Raw.w
            N == fftWin.N
            sum == NpSum(w)
        IN  /\ fftWin.scale = XDiv(XInt(N), sum)
            /\ fftWin.nenbw = XDiv(XMul(XInt(N), NpSum(NpSquare(w))),
                                   XMul(sum, sum))
            /\ fftWin.win = IF fftWin.chk_norm_f
                            THEN [i \in DOMAIN w |-> XMul(w[i], fftWin.scale)]
                            ELSE w
            /\ fftWin.Win = Spectrum(fftWin.win, N * PAD, N)

\* a window that is not flat has been computed and normalised
C7_Witness ==
    /\ CalcWinDone
    /\ fftWin.chk_norm_f
    /\ IsFinite(fftWin.scale) /\ fftWin.scale # XOne
    /\ fftWin.win # Raw.w

\* C8: when the samples the window function returned sum to zero, calc_win
\* ends in a DegenerateInput error
C8_ZeroSumRaises ==
    (/\ ret.op \in {"draw", "calc_win"}
     /\ Raw.raised = ""
     /\ NpSum(Raw.w) = XZero)
        => ret.raised = "DegenerateInput"

\* C9: a calc_win that fails on the window family or on the number of shape
\* parameters leaves N, t, win, the metrics and F / Win as they were, so the
\* lengths still agree
C9_NoResidue ==
    [][CalcWinFailed' =>
          /\ fftWin'.N = fftWin.N
          /\ fftWin'.t = fftWin.t
          /\ fftWin'.win = fftWin.win
          /\ fftWin'.nenbw = fftWin.nenbw
          /\ fftWin'.scale = fftWin.scale
          /\ fftWin'.F = fftWin.F
          /\ fftWin'.Win = fftWin.Win
          /\ Len(fftWin'.t) = fftWin'.N
          /\ Len(fftWin'.win) = fftWin'.N
          /\ Len(fftWin'.F) = PAD * fftWin'.N
          /\ fftWin'.Win.len = PAD * fftWin'.N]_vars

----------------------------------------------------------------------------
(* Claims about repeated calls (SpecIndep) *)

----------------------------------------------------------------------------
(* Claims about the filter record (SpecFrame) *)

----------------------------------------------------------------------------
(* Claims about complex responses (SpecImpz) *)

\* the response impz returns for what draw_impz has handed to it
Response ==
    impz(bb, aa, plotImpz.f_S, plotImpz.chkStep, plotImpz.ledNPoints).h

\* the series s as plotted: in dB above the floor in log mode, else as it is
Shown(s) ==
    IF plotImpz.chkLog THEN LogImpz(s, plotImpz.ledLogBottom) ELSE s

----------------------------------------------------------------------------
(* Claims about process_sig_rx (SpecSig) *)

\* the step is a call of process_sig_rx
SigStep == ret'.op = "process_sig_rx"

\* a recalculation that is pending stays pending while the window is
\* hidden, and the first signal processed while it is visible calls draw()
\* and clears needs_calc
PendingKept ==
    [][(SigStep /\ fftWin.needs_calc) =>
          IF fftWin.visible
          THEN ret'.called = "draw" /\ ~fftWin'.needs_calc
          ELSE fftWin'.needs_calc]_vars

\* C13: a recalculation asked for while the window is hidden stays pending
\* until the first signal processed while it is visible, which calls draw()
\* and clears needs_calc; and no call of process_sig_rx reads needs_draw or
\* needs_redraw before it has been assigned
C13_PendingNeverLost ==
    [][SigStep =>
          /\ ret'.raised = ""
          /\ fftWin.needs_calc =>
                IF fftWin.visible
                THEN ret'.called = "draw" /\ ~fftWin'.needs_calc
                ELSE fftWin'.needs_calc]_vars

====
